---- MODULE Spec2Model ----
(***************************************************************************)
(* A model of lib/python/bdebuild/waf/bdeunittest.py: the waf tool that    *)
(* decides whether BDE test drivers run (utest.runnable_status), runs them *)
(* on the build's worker threads (utest.run), and after the build prints a *)
(* summary (print_test_summary), generates a coverage report               *)
(* (generate_coverage_report) and fails the build (post_build_fun).        *)
(*                                                                         *)
(* Durations are whole milliseconds.  Text that the program prints is      *)
(* modelled as the strings it prints.                                      *)
(***************************************************************************)
EXTENDS Integers, Sequences, FiniteSets, TLC

\* Number of test tasks (task generators with the 'test' feature).
NumTasks == 3
\* Number of worker threads of the build (waf -j).
MaxJobs == 2
\* Largest whole number of seconds given to get_time in SpecTime.
MaxSecs == 6001

Tasks == 1..NumTasks

\* Python None (a task generator without link_task, ctx.fatal not called).
None == "None"

\* A local or attribute that is not set yet is <<>>, one set to v is <<v>>.
Unset == <<>>
Some(v) == <<v>>
IsSet(x) == Len(x) = 1

\* Task.SKIP_ME, Task.RUN_ME, Task.ASK_LATER of waflib.
SKIP_ME == "SKIP_ME"
RUN_ME == "RUN_ME"
ASK_LATER == "ASK_LATER"
StalenessResults == {SKIP_ME, RUN_ME, ASK_LATER}

\* The choices of --test.
TestModes == {"none", "build", "run"}

\* The exit codes a test runner process can end with.
ExitCodes == {0, 1, 2}

\* Fractions of a second (ms) given to get_time in SpecTime.
FracMs == {0, 1, 250, 500, 999}

(***************************************************************************)
(* Text helpers: '%d', '%02d' and str.join.                                *)
(***************************************************************************)
DigitChars == <<"0", "1", "2", "3", "4", "5", "6", "7", "8", "9">>

RECURSIVE FmtD(_)
\* '%d' % n for n >= 0
FmtD(n) == IF n < 10 THEN DigitChars[n + 1]
           ELSE FmtD(n \div 10) \o DigitChars[(n % 10) + 1]

\* '%02d' % n for n >= 0: zero-padded to a width of at least two
Fmt02d(n) == IF n < 10 THEN "0" \o FmtD(n) ELSE FmtD(n)

RECURSIVE Join(_, _)
\* sep.join(lst)
Join(lst, sep) == IF Len(lst) = 0 THEN ""
                  ELSE IF Len(lst) = 1 THEN lst[1]
                  ELSE lst[1] \o sep \o Join(Tail(lst), sep)

(***************************************************************************)
(* The build graph and the test tasks (static for one invocation).         *)
(***************************************************************************)
TaskLetters == <<"a", "b", "c", "d", "e", "f", "g", "h">>

\* tst.parent.abspath(): tasks 1,2 share a directory, 3,4 the next, ...
TestDirOf(t) == "/bld/g" \o FmtD((t + 1) \div 2)
\* testdriver_node.abspath()
TestPathOf(t) == TestDirOf(t) \o "/" \o TaskLetters[t] \o "_t"
\* src.parent.abspath(): odd and even tasks come from two packages
SrcDirOf(t) == "/src/p" \o FmtD(t % 2)
\* end_time - start_time (ms) of the runner of task t: each test driver
\* takes its own time, 0.01 s, 70 s, 0.5 s, 61 s, ...
TaskDurations == <<10, 70000, 500, 61000>>
DurationOf(t) == TaskDurations[((t - 1) % Len(TaskDurations)) + 1]
\* the combined stdout+stderr text of the runner of task t
StdoutOf(t, code) == "output of " \o TaskLetters[t] \o "_t: exit " \o FmtD(code)

\* os.environ when the build starts
OsEnviron == [PATH |-> "/usr/bin", LD_LIBRARY_PATH |-> "/opt/lib", HOME |-> "/root"]
\* the same, without a library search path set
OsEnvironBare == [PATH |-> "/usr/bin", HOME |-> "/root"]
AmbientEnvs == {OsEnviron, OsEnvironBare}

Platforms == {"win32", "darwin", "linux"}

VARIABLES
  options_test,    \* Options.options.test
  with_coverage,   \* ctx.env['with_coverage']
  show_test_out,   \* ctx.options.show_test_out as print_test_summary read it
  platform,        \* Utils.is_win32 / Utils.unversioned_sys_platform()
  os_environ,      \* os.environ
  phase,           \* "start", "compile", "coverage", "end" of the build invocation
  post_funs,       \* functions registered with ctx.add_post_fun
  bldfiles,        \* files under ctx.bldnode
  link_task,       \* per test task generator: whether it has a link_task
  pc,              \* per task: position of its utest task
  fu,              \* per task: the local fu of utest.run
  proc,            \* per task: the exit code and duration of its child
  utest_result,    \* per task: self.generator.utest_result
  run_ret,         \* per task: what utest.run returned
  bld,             \* the attributes utest.run sets on self.generator.bld
  testlock,        \* holder of testlock, 0 when free
  env_computes,    \* how often the walk and store of lines 101-122 ran
  stop,            \* the build stopped scheduling after a failed task
  console,         \* what Logs.pprint / Logs.info printed
  num_test_failures, \* post_build_fun's local
  error_msg,       \* post_build_fun's local
  is_success,      \* post_build_fun's local
  fatal,           \* the message of ctx.fatal, None when not called
  cov_scope,       \* test_dir_paths | src_dir_paths
  cmd_idx,         \* generate_coverage_report's loop index
  logfile,         \* what was written to coverage.log
  cov_rcs,         \* return codes of the coverage steps run so far
  cov_is_success,  \* generate_coverage_report's local is_success
  cov_ret,         \* what generate_coverage_report returned
  rs_log,          \* per task: the last call of runnable_status, SpecDecider
  t_in,            \* SpecTime: the duration given to get_time
  t_out            \* SpecTime: what get_time returned

optvars == <<options_test, with_coverage, platform, os_environ>>
bldvars == <<phase, post_funs, bldfiles, link_task>>
taskvars == <<pc, fu, proc, utest_result, run_ret, bld, testlock, env_computes, stop>>
postvars == <<show_test_out, console, num_test_failures, error_msg, is_success, fatal>>
covvars == <<cov_scope, cmd_idx, logfile, cov_rcs, cov_is_success, cov_ret>>
auxvars == <<rs_log, t_in, t_out>>
vars == <<optvars, bldvars, taskvars, postvars, covvars, auxvars>>

(***************************************************************************)
(* Attributes of the build context: getattr / setattr.                     *)
(***************************************************************************)
HasAttr(obj, name) == name \in DOMAIN obj
SetAttr(obj, name, v) ==
  [k \in DOMAIN obj \cup {name} |-> IF k = name THEN v ELSE obj[k]]
\* getattr(ctx, 'utest_results', [])
ResultsOf(obj) == IF HasAttr(obj, "utest_results") THEN obj["utest_results"] ELSE <<>>

Range(s) == {s[i] : i \in 1..Len(s)}

\* bld.groups: a group of libraries (one task generator has no link_task),
\* then the group of test drivers.
BldGroups ==
  << << [link |-> "/bld/lib"], [link |-> None], [link |-> "/bld/lib"] >>,
     [t \in Tasks |-> [link |-> IF link_task[t] THEN TestDirOf(t) ELSE None]] >>

(***************************************************************************)
(* utest.runnable_status, as a function of --test and of what              *)
(* Task.Task.runnable_status returns.                                      *)
(***************************************************************************)
\* variant: the up-to-date result is passed on, not overridden
runnable_status_no_override(test, super_ret) ==
  IF test # "run" THEN SKIP_ME ELSE super_ret

\* variant: the test of --test is inverted
runnable_status_inverted_mode(test, super_ret) ==
  LET run_test == test # "run" IN
  IF ~run_test THEN SKIP_ME
  ELSE IF super_ret = SKIP_ME THEN RUN_ME ELSE super_ret

runnable_status(test, super_ret) ==
  LET run_test == test = "run" IN
  IF ~run_test THEN SKIP_ME
  ELSE IF super_ret = SKIP_ME
       THEN (IF run_test THEN RUN_ME ELSE super_ret)
       ELSE super_ret

(***************************************************************************)
(* The environment of the test processes, lines 101-121 of utest.run.      *)
(***************************************************************************)
RECURSIVE FlattenGroups(_)
\* for g in bld.groups: for tg in g
FlattenGroups(groups) ==
  IF Len(groups) = 0 THEN <<>>
  ELSE Head(groups) \o FlattenGroups(Tail(groups))

RECURSIVE LinkDirsNoDedup(_, _)
\* variant: without the test 's not in lst'
LinkDirsNoDedup(tgs, lst) ==
  IF Len(tgs) = 0 THEN lst
  ELSE LET tg == Head(tgs) IN
       IF tg.link # None
       THEN LinkDirsNoDedup(Tail(tgs), Append(lst, tg.link))
       ELSE LinkDirsNoDedup(Tail(tgs), lst)

RECURSIVE LinkDirs(_, _)
\* the loop body of lines 106-109 over the task generators tgs
LinkDirs(tgs, lst) ==
  IF Len(tgs) = 0 THEN lst
  ELSE LET tg == Head(tgs) IN
       IF tg.link # None
       THEN LET s == tg.link IN
            LinkDirs(Tail(tgs), IF s \notin Range(lst) THEN Append(lst, s) ELSE lst)
       ELSE LinkDirs(Tail(tgs), lst)

\* os.pathsep
PathSep(plat) == IF plat = "win32" THEN ";" ELSE ":"

\* os.environ.get(var, '')
EnvironGet(var) == IF var \in DOMAIN os_environ THEN os_environ[var] ELSE ""

add_path(dct, path, var, plat) ==
  SetAttr(dct, var, Join(path \o <<EnvironGet(var)>>, PathSep(plat)))

ResolveEnv(plat) ==
  LET fu0 == os_environ
      lst == LinkDirs(FlattenGroups(BldGroups), <<>>)
  IN IF plat = "win32" THEN add_path(fu0, lst, "PATH", plat)
     ELSE IF plat = "darwin"
          THEN add_path(add_path(fu0, lst, "DYLD_LIBRARY_PATH", plat),
                        lst, "LD_LIBRARY_PATH", plat)
          ELSE add_path(fu0, lst, "LD_LIBRARY_PATH", plat)

(***************************************************************************)
(* print_test_summary.                                                      *)
(***************************************************************************)
\* variant: the switch to MM:SS is one millisecond late
get_time_late_switch(ms) ==
  LET m == ms \div 60000
      s == (ms % 60000) \div 1000
  IN IF ms <= 60000 THEN FmtD(ms) \o "ms"
     ELSE Fmt02d(m) \o ":" \o Fmt02d(s)

\* get_time(seconds) with seconds = ms / 1000: divmod(seconds, 60) gives
\* m = ms div 60000 and s = (ms mod 60000) / 1000, which '%02d' truncates.
get_time(ms) ==
  LET m == ms \div 60000
      s == (ms % 60000) \div 1000
  IN IF m = 0 THEN FmtD(ms) \o "ms"
     ELSE Fmt02d(m) \o ":" \o Fmt02d(s)

\* variant: only exit code 1 counts as a failure
TruthyOnlyOne(code) == code = 1

\* the truth value of an exit code: 'if x[1]', 'if code', 'if not code'
Truthy(code) == code # 0

pprint(color, text) == [color |-> color, text |-> text]

\* lines 180-182 and 189-191: the output of one test between its markers
Framed(color, x) ==
  << pprint(color, "[" \o TestPathOf(x.f) \o " (TEST)] <<<<<<<<<<"),
     pprint("CYAN", x.out),
     pprint(color, ">>>>>>>>>>") >>

\* variant: without the test 'if not code'
PassEntryUnfiltered(x, show) ==
  IF show THEN Framed("GREEN", x)
  ELSE << pprint("GREEN", TestPathOf(x.f) \o " (" \o get_time(x.time) \o ")") >>

\* lines 178-184, for one result
PassEntry(x, show) ==
  IF ~Truthy(x.code)
  THEN IF show THEN Framed("GREEN", x)
       ELSE << pprint("GREEN", TestPathOf(x.f) \o " (" \o get_time(x.time) \o ")") >>
  ELSE <<>>

\* lines 188-191, for one result
FailEntry(x) == IF Truthy(x.code) THEN Framed("YELLOW", x) ELSE <<>>

RECURSIVE PassLoop(_, _)
PassLoop(lst, show) ==
  IF Len(lst) = 0 THEN <<>>
  ELSE PassEntry(Head(lst), show) \o PassLoop(Tail(lst), show)

RECURSIVE FailLoopBreak(_)
\* variant: the loop over the failures ends at the first passing result
FailLoopBreak(lst) ==
  IF Len(lst) = 0 THEN <<>>
  ELSE IF Truthy(Head(lst).code)
       THEN Framed("YELLOW", Head(lst)) \o FailLoopBreak(Tail(lst))
       ELSE <<>>

RECURSIVE FailLoop(_)
FailLoop(lst) ==
  IF Len(lst) = 0 THEN <<>>
  ELSE FailEntry(Head(lst)) \o FailLoop(Tail(lst))

\* tfail = len([x for x in lst if x[1]])
CountFail(lst) == Cardinality({i \in 1..Len(lst) : Truthy(lst[i].code)})

\* the lines printed and the value returned
print_test_summary(ctx, show) ==
  LET lst == ResultsOf(ctx)
      total == Len(lst)
      tfail == CountFail(lst)
  IN [out |-> << pprint("CYAN", "Test Summary") >>
              \o << pprint("CYAN", "  tests that pass " \o FmtD(total - tfail)
                                   \o "/" \o FmtD(total)) >>
              \o PassLoop(lst, show)
              \o << pprint("CYAN", "  tests that fail " \o FmtD(tfail)
                                   \o "/" \o FmtD(total)) >>
              \o FailLoop(lst),
      ret |-> tfail]

(***************************************************************************)
(* generate_coverage_report.                                                *)
(***************************************************************************)
\* lines 226-235 and 251: test_dir_paths | src_dir_paths
CoverageScope(ctx) ==
  LET lst == ResultsOf(ctx) IN
  {TestDirOf(lst[i].f) : i \in 1..Len(lst)} \cup {SrcDirOf(lst[i].src) : i \in 1..Len(lst)}

\* cmd_descs; the '-d <dir>' arguments of the first two commands are the
\* scope, kept in cov_scope
cmd_descs ==
  << [cmd |-> "lcov -c -i -o test_base.info", desc |-> "Building baseline trace file"],
     [cmd |-> "lcov -c -o test_run.info", desc |-> "Building test-run trace file"],
     [cmd |-> "lcov -a test_base.info -a test_run.info -o test_total.info",
      desc |-> "Combining trace files"],
     [cmd |-> "lcov --remove test_total.info *.t.cpp -o test_final.info",
      desc |-> "Filtering trace file"],
     [cmd |-> "genhtml --function-coverage test_final.info",
      desc |-> "Generating html pages"] >>
cmd_len == Len(cmd_descs)

\* the banner written to the log before a command runs, lines 306-308
RunBanner(idx) == "run cmd: " \o cmd_descs[idx].cmd

\* variant: no break after a failed command
CovLoopNoBreak(idx, ok) == idx < cmd_len

\* the loop of lines 297-317 goes on
CovLoopGoesOn(idx, ok) == idx < cmd_len /\ ok

\* exit codes of the coverage tools
CovExitCodes == {0, 1}

(***************************************************************************)
(* The state after the options are parsed and the build context is made.   *)
(***************************************************************************)
\* make_test: a utest task is created for a generator that has a link_task
make_test(has_link_task) == IF has_link_task THEN "pending" ELSE "notask"

InitTasks ==
  /\ link_task \in [Tasks -> BOOLEAN]
  /\ pc = [t \in Tasks |-> make_test(link_task[t])]
  /\ fu = [t \in Tasks |-> Unset]
  /\ proc = [t \in Tasks |-> Unset]
  /\ utest_result = [t \in Tasks |-> Unset]
  /\ run_ret = [t \in Tasks |-> 0]
  /\ bld = <<>>
  /\ testlock = 0
  /\ env_computes = 0
  /\ stop = FALSE

InitPost ==
  /\ console = <<>>
  /\ num_test_failures = 0
  /\ error_msg = ""
  /\ is_success = TRUE
  /\ fatal = None
  /\ cov_scope = {}
  /\ cmd_idx = 0
  /\ logfile = <<>>
  /\ cov_rcs = <<>>
  /\ cov_is_success = TRUE
  /\ cov_ret = Unset

InitBuild ==
  /\ phase = "start"
  /\ post_funs = <<>>
  /\ bldfiles = {[stem |-> "a.t", ext |-> "gcda"], [stem |-> "a.t", ext |-> "o"]}

\* The build runs on one host; the model's host is a Unix that is not macOS.
\* --show-test-out is read once, by print_test_summary, and is drawn there.
Init ==
  /\ options_test \in TestModes
  /\ with_coverage \in BOOLEAN
  /\ show_test_out = FALSE
  /\ platform = "linux"
  /\ os_environ = OsEnviron
  /\ InitBuild /\ InitTasks /\ InitPost
  /\ rs_log = [t \in Tasks |-> Unset]
  /\ t_in = 0
  /\ t_out = ""

(***************************************************************************)
(* build(ctx), with remove_gcda_files.                                      *)
(***************************************************************************)
\* variant: the matches are collected but not removed
remove_gcda_files_keeps(files) == files

remove_gcda_files(files) == {f \in files : f.ext # "gcda"}

Build ==
  /\ phase = "start"
  /\ phase' = "compile"
  /\ IF options_test = "run"
     THEN /\ bldfiles' = IF with_coverage THEN remove_gcda_files(bldfiles) ELSE bldfiles
          /\ post_funs' = Append(post_funs, "post_build_fun")
     ELSE UNCHANGED <<bldfiles, post_funs>>
  /\ UNCHANGED link_task
  /\ UNCHANGED <<optvars, taskvars, postvars, covvars, auxvars>>

(***************************************************************************)
(* The utest task of one test driver.                                      *)
(***************************************************************************)
\* the tasks that occupy a worker thread
Running == {t \in Tasks : pc[t] \in {"mkenv", "exec", "acquire", "append",
                                     "create", "release"}}

\* where the scheduler puts a task after runnable_status returned ret
AfterStatus(ret) == IF ret = SKIP_ME THEN "skipped"
                    ELSE IF ret = RUN_ME THEN "ready"
                    ELSE "pending"

\* the scheduler asks task t, whose staleness check returns super_ret
AskStatus(t, super_ret) ==
  /\ phase = "compile"
  /\ pc[t] = "pending"
  /\ pc' = [pc EXCEPT ![t] = AfterStatus(runnable_status(options_test, super_ret))]
  /\ UNCHANGED <<optvars, bldvars, postvars, covvars, t_in, t_out>>
  /\ UNCHANGED <<fu, proc, utest_result, run_ret, bld, testlock, env_computes, stop>>

RunnableStatus(t) ==
  \E super_ret \in StalenessResults :
    /\ AskStatus(t, super_ret)
    /\ UNCHANGED rs_log

\* the same call, with its argument and result kept in rs_log
RunnableStatusLogged(t) ==
  \E super_ret \in StalenessResults :
    /\ AskStatus(t, super_ret)
    /\ rs_log' = [rs_log EXCEPT ![t] = Some([stale |-> super_ret,
                     ret |-> runnable_status(options_test, super_ret)])]

\* variant: the stored map is never reused
NeedsEnvAlways(ctx) == TRUE

\* lines 97-99: getattr(bld, 'all_test_paths') raises AttributeError
NeedsEnv(ctx) == ~HasAttr(ctx, "all_test_paths")

\* a worker thread takes the task: lines 96-99, and with the stored map
\* lines 124-130: the child is started
StartRun(t) ==
  /\ phase = "compile"
  /\ pc[t] = "ready"
  /\ ~stop
  /\ Cardinality(Running) < MaxJobs
  /\ IF NeedsEnv(bld)
     THEN /\ pc' = [pc EXCEPT ![t] = "mkenv"]
          /\ UNCHANGED fu
     ELSE /\ fu' = [fu EXCEPT ![t] = Some(bld["all_test_paths"])]
          /\ pc' = [pc EXCEPT ![t] = "exec"]
  /\ UNCHANGED <<optvars, bldvars, postvars, covvars, auxvars>>
  /\ UNCHANGED <<proc, utest_result, run_ret, bld, testlock, env_computes, stop>>

\* variant: fu is os.environ itself, not a copy of it
EnvironAliased(environ, written) == written

\* line 101: fu is a copy, so os.environ is what it was after fu is written
EnvironAfterCopy(environ, written) == environ

\* variant: the map is stored before the search path is added to it
StoredBeforeAddPath(copied, resolved) == copied

\* line 122: what is stored in bld.all_test_paths, given the copy of line 101
\* and the map after lines 103-121
StoredPaths(copied, resolved) == resolved

\* lines 100-130: the walk over the build graph, the store, the child is started
MakeEnv(t) ==
  /\ pc[t] = "mkenv"
  /\ LET env == ResolveEnv(platform) IN
       /\ fu' = [fu EXCEPT ![t] = Some(env)]
       /\ bld' = SetAttr(bld, "all_test_paths", StoredPaths(os_environ, env))
       /\ os_environ' = EnvironAfterCopy(os_environ, env)
  /\ env_computes' = env_computes + 1
  /\ pc' = [pc EXCEPT ![t] = "exec"]
  /\ UNCHANGED <<options_test, with_coverage, platform>>
  /\ UNCHANGED <<bldvars, postvars, covvars, auxvars>>
  /\ UNCHANGED <<proc, utest_result, run_ret, testlock, stop>>

\* tup, lines 137-138
MakeTup(t, returncode, duration) ==
  [f |-> t, code |-> returncode, out |-> StdoutOf(t, returncode),
   time |-> duration, src |-> t]

\* lines 131-139: the child exits, with one of the exit codes in codes
ChildExitWith(t, codes) ==
  /\ pc[t] = "exec"
  /\ \E returncode \in codes :
       /\ proc' = [proc EXCEPT ![t] = Some([returncode |-> returncode,
                                            duration |-> DurationOf(t)])]
       /\ utest_result' = [utest_result EXCEPT
                             ![t] = Some(MakeTup(t, returncode, DurationOf(t)))]
  /\ pc' = [pc EXCEPT ![t] = "acquire"]
  /\ UNCHANGED <<optvars, bldvars, postvars, covvars, auxvars>>
  /\ UNCHANGED <<fu, run_ret, bld, testlock, env_computes, stop>>

ChildExit(t) == ChildExitWith(t, ExitCodes)

\* variant: no mutual exclusion
LockAlwaysFree(lock) == TRUE

\* testlock.acquire() can return
LockFree(lock) == lock = 0

\* line 141
Acquire(t) ==
  /\ pc[t] = "acquire"
  /\ LockFree(testlock)
  /\ testlock' = t
  /\ pc' = [pc EXCEPT ![t] = "append"]
  /\ UNCHANGED <<optvars, bldvars, postvars, covvars, auxvars>>
  /\ UNCHANGED <<fu, proc, utest_result, run_ret, bld, env_computes, stop>>

\* variant: the tuple is put in front of the list
InsertFirst(lst, tup) == <<tup>> \o lst

\* line 146: list.append
AppendTup(lst, tup) == Append(lst, tup)

\* lines 145-147: append, or AttributeError
TryAppend(t) ==
  /\ pc[t] = "append"
  /\ IF HasAttr(bld, "utest_results")
     THEN /\ bld' = SetAttr(bld, "utest_results",
                            AppendTup(bld["utest_results"], utest_result[t][1]))
          /\ pc' = [pc EXCEPT ![t] = "release"]
     ELSE /\ pc' = [pc EXCEPT ![t] = "create"]
          /\ UNCHANGED bld
  /\ UNCHANGED <<optvars, bldvars, postvars, covvars, auxvars>>
  /\ UNCHANGED <<fu, proc, utest_result, run_ret, testlock, env_computes, stop>>

\* line 148
CreateResults(t) ==
  /\ pc[t] = "create"
  /\ bld' = SetAttr(bld, "utest_results", <<utest_result[t][1]>>)
  /\ pc' = [pc EXCEPT ![t] = "release"]
  /\ UNCHANGED <<optvars, bldvars, postvars, covvars, auxvars>>
  /\ UNCHANGED <<fu, proc, utest_result, run_ret, testlock, env_computes, stop>>

\* variant: the exit code of the test is returned to the build
RunReturnExitCode(returncode) == returncode

\* what utest.run returns to the build (it falls off its end: None, here 0)
RunReturn(returncode) == 0

\* variant: the lock is not released
LockKept(holder) == holder

\* testlock.release(): the lock is free
LockReleased(holder) == 0

\* line 150, and the return; the build stops scheduling after a task that
\* returns a nonzero value
Release(t) ==
  /\ pc[t] = "release"
  /\ testlock' = LockReleased(testlock)
  /\ LET ret == RunReturn(utest_result[t][1].code) IN
       /\ run_ret' = [run_ret EXCEPT ![t] = ret]
       /\ stop' = (stop \/ ret # 0)
  /\ pc' = [pc EXCEPT ![t] = "done"]
  /\ UNCHANGED <<optvars, bldvars, postvars, covvars, auxvars>>
  /\ UNCHANGED <<fu, proc, utest_result, bld, env_computes>>

(***************************************************************************)
(* post_build_fun, with generate_coverage_report.                          *)
(***************************************************************************)
\* str(ctx.log_timer)
LogTimer == "1.0s"

\* variant: the failure is reported only when the message is empty
FatalOnEmptyMessage(ok, msg) ==
  IF ~ok /\ msg = "" THEN msg \o " (" \o LogTimer \o ")" ELSE None

\* lines 359-360
Fatal(ok, msg) == IF ~ok THEN msg \o " (" \o LogTimer \o ")" ELSE None

\* variant: without the assignment of line 355
CoverageResultReturned(ret) == ret

\* what line 355 leaves in is_coverage_success
CoverageResult(ret) == FALSE

\* lines 343-353 and, with coverage, lines 226-296 of
\* generate_coverage_report; without it lines 359-360
PostBuildFun ==
  /\ phase = "compile"
  /\ Len(post_funs) > 0
  /\ \A t \in Tasks : pc[t] \in {"notask", "skipped", "done"}
  /\ ~stop
  /\ \E show \in BOOLEAN :
     LET sum == print_test_summary(bld, show)
         failed == sum.ret > 0
     IN /\ show_test_out' = show
        /\ num_test_failures' = sum.ret
        /\ is_success' = ~failed
        /\ error_msg' = IF failed THEN "Some tests have failed." ELSE ""
        /\ IF with_coverage
           THEN /\ console' = sum.out
                     \o (IF failed THEN <<>> ELSE <<pprint("INFO", "All tests passed.")>>)
                     \o << pprint("CYAN", "Generating Test Coverage Report"),
                           pprint("GREEN", "  log file: /bld/coverage.log") >>
                /\ cov_scope' = CoverageScope(bld)
                /\ logfile' = <<"all cmds: cmd_descs">>
                /\ cmd_idx' = 0
                /\ cov_rcs' = <<>>
                /\ cov_is_success' = TRUE
                /\ phase' = "coverage"
                /\ UNCHANGED <<fatal, cov_ret>>
           ELSE /\ console' = sum.out
                     \o (IF failed THEN <<>> ELSE <<pprint("INFO", "All tests passed.")>>)
                /\ fatal' = Fatal(~failed, IF failed THEN "Some tests have failed." ELSE "")
                /\ phase' = "end"
                /\ UNCHANGED covvars
  /\ UNCHANGED <<optvars, post_funs, bldfiles, link_task, taskvars, auxvars>>

\* one turn of the loop of lines 297-317: the banner, the command, its exit code
CoverageStep ==
  /\ phase = "coverage"
  /\ CovLoopGoesOn(cmd_idx, cov_is_success)
  /\ cmd_idx' = cmd_idx + 1
  /\ console' = Append(console, pprint("INFO", "[" \o FmtD(cmd_idx + 1) \o "/"
                     \o FmtD(cmd_len) \o "] " \o cmd_descs[cmd_idx + 1].desc))
  /\ logfile' = Append(logfile, RunBanner(cmd_idx + 1))
  /\ \E rc \in CovExitCodes :
       /\ cov_rcs' = Append(cov_rcs, rc)
       /\ cov_is_success' = IF rc # 0 THEN FALSE ELSE cov_is_success
  /\ UNCHANGED <<optvars, bldvars, taskvars, auxvars>>
  /\ UNCHANGED <<show_test_out, num_test_failures, error_msg, is_success, fatal,
                 cov_scope, cov_ret>>

\* lines 318-322, then lines 355-360 of post_build_fun
CoverageReturn ==
  /\ phase = "coverage"
  /\ ~CovLoopGoesOn(cmd_idx, cov_is_success)
  /\ cov_ret' = Some(cov_is_success)
  /\ console' = console \o
       (IF cov_is_success
        THEN << pprint("CYAN", "Generated Report"),
                pprint("YELLOW", "  /bld/_test_coverage/report/index.html") >>
        ELSE <<>>)
  /\ LET is_coverage_success == CoverageResult(cov_is_success)
         msg == IF ~is_coverage_success
                THEN error_msg \o "\nFailed to generate coverage report."
                ELSE error_msg
     IN /\ error_msg' = msg
        /\ fatal' = Fatal(is_success, msg)
  /\ phase' = "end"
  /\ UNCHANGED <<optvars, post_funs, bldfiles, link_task, taskvars, auxvars>>
  /\ UNCHANGED <<show_test_out, num_test_failures, is_success, cov_scope, cmd_idx,
                 logfile, cov_rcs, cov_is_success>>

Next ==
  \/ Build
  \/ \E t \in Tasks : RunnableStatus(t)
  \/ \E t \in Tasks : StartRun(t)
  \/ \E t \in Tasks : MakeEnv(t)
  \/ \E t \in Tasks : ChildExit(t)
  \/ \E t \in Tasks : Acquire(t)
  \/ \E t \in Tasks : TryAppend(t)
  \/ \E t \in Tasks : CreateResults(t)
  \/ \E t \in Tasks : Release(t)
  \/ PostBuildFun
  \/ CoverageStep
  \/ CoverageReturn

Spec == Init /\ [][Next]_vars

(***************************************************************************)
(* The scheduler's calls of runnable_status alone, each call recorded.     *)
(***************************************************************************)
NextDecider ==
  \/ Build
  \/ \E t \in Tasks : RunnableStatusLogged(t)

SpecDecider == Init /\ [][NextDecider]_vars

(***************************************************************************)
(* get_time alone, on durations of whole milliseconds up to MaxSecs.       *)
(***************************************************************************)
TimeInputs == {s * 1000 + f : s \in 0..MaxSecs, f \in FracMs}

InitTime ==
  /\ options_test = "run"
  /\ with_coverage = FALSE
  /\ show_test_out = FALSE
  /\ platform = "linux"
  /\ os_environ = OsEnviron
  /\ InitBuild /\ InitTasks /\ InitPost
  /\ \A t \in Tasks : link_task[t]
  /\ rs_log = [t \in Tasks |-> Unset]
  /\ t_in \in TimeInputs
  /\ t_out = ""

GetTime ==
  /\ t_out = ""
  /\ t_out' = get_time(t_in)
  /\ UNCHANGED <<optvars, bldvars, taskvars, postvars, covvars, rs_log, t_in>>

SpecTime == InitTime /\ [][GetTime]_vars

(***************************************************************************)
(* The test tasks of a run without coverage, on each platform and with     *)
(* and without an ambient library search path.                             *)
(***************************************************************************)
InitEnv ==
  /\ options_test = "run"
  /\ with_coverage = FALSE
  /\ show_test_out = FALSE
  /\ platform \in Platforms
  /\ os_environ \in AmbientEnvs
  /\ InitBuild /\ InitTasks /\ InitPost
  /\ rs_log = [t \in Tasks |-> Unset]
  /\ t_in = 0
  /\ t_out = ""

\* The exit code of a test has no part in the environment or in the lock.
WorkerExitCodes == {0, 1}

NextEnv ==
  \/ Build
  \/ \E t \in Tasks : RunnableStatus(t)
  \/ \E t \in Tasks : StartRun(t)
  \/ \E t \in Tasks : MakeEnv(t)
  \/ \E t \in Tasks : ChildExitWith(t, WorkerExitCodes)
  \/ \E t \in Tasks : Acquire(t)
  \/ \E t \in Tasks : TryAppend(t)
  \/ \E t \in Tasks : CreateResults(t)
  \/ \E t \in Tasks : Release(t)

SpecEnv == InitEnv /\ [][NextEnv]_vars

(***************************************************************************)
(* The test tasks of a run with the worker threads scheduled fairly: a     *)
(* thread that can take its next step of lines 141-150 takes it.  Nothing  *)
(* makes a child process exit (line 131), and nothing makes the scheduler  *)
(* start a task.                                                           *)
(***************************************************************************)
WorkerFairness ==
  \A t \in Tasks :
    /\ WF_vars(Acquire(t))
    /\ WF_vars(TryAppend(t))
    /\ WF_vars(CreateResults(t))
    /\ WF_vars(Release(t))

InitRun ==
  /\ InitEnv
  /\ platform = "linux"
  /\ os_environ = OsEnviron

SpecFair == InitRun /\ [][NextEnv]_vars /\ WorkerFairness

(***************************************************************************)
(* Properties.                                                             *)
(***************************************************************************)
\* the tasks whose append (lines 145-148) has completed
Appended == {t \in Tasks : pc[t] \in {"release", "done"}}
\* the tasks whose utest.run has returned
Executed == {t \in Tasks : pc[t] = "done"}
\* print_test_summary has run
SummaryPrinted == phase \in {"coverage", "end"}
\* print_test_summary has run, in the step before
SummaryJustPrinted == \/ phase = "coverage" /\ cmd_idx = 0
                      \/ phase = "end" /\ ~with_coverage
\* the positions of the results of task t in the shared list
EntriesOf(t) == {i \in 1..Len(ResultsOf(bld)) : ResultsOf(bld)[i].f = t}

(* C1: whatever the interleaving of the workers, the shared utest_results   *)
(* list holds exactly one entry per completed append: its length is the    *)
(* number of appends, every worker that appended has its own tuple in it   *)
(* exactly once, and nothing else is in it.                                *)
C1_NoLostOrDuplicatedEntry ==
  LET lst == ResultsOf(bld) IN
  /\ Len(lst) = Cardinality(Appended)
  /\ \A t \in Appended :
       /\ Cardinality(EntriesOf(t)) = 1
       /\ \A i \in EntriesOf(t) : lst[i] = utest_result[t][1]
  /\ \A i \in 1..Len(lst) : lst[i].f \in Appended

\* all NumTasks >= 2 workers have finished and the list holds their results
C1_Witness ==
  /\ NumTasks >= 2
  /\ \A t \in Tasks : pc[t] = "done"
  /\ Len(ResultsOf(bld)) = NumTasks

(* C2: every call of utest.runnable_status returns SKIP_ME in the modes    *)
(* none and build whatever the staleness check says; in mode run it        *)
(* returns RUN_ME when the staleness check says RUN_ME or SKIP_ME, and the *)
(* staleness result itself otherwise.                                      *)
C2_RunnableStatusTable ==
  \A t \in Tasks : IsSet(rs_log[t]) =>
    LET call == rs_log[t][1] IN
    /\ options_test \in {"none", "build"} => call.ret = SKIP_ME
    /\ (options_test = "run" /\ call.stale \in {RUN_ME, SKIP_ME}) => call.ret = RUN_ME
    /\ (options_test = "run" /\ call.stale \notin {RUN_ME, SKIP_ME}) => call.ret = call.stale

\* in mode run an up-to-date task was asked and is scheduled to run
C2_Witness ==
  \E t \in Tasks :
    /\ options_test = "run"
    /\ IsSet(rs_log[t])
    /\ rs_log[t][1].stale = SKIP_ME
    /\ rs_log[t][1].ret = RUN_ME
    /\ pc[t] = "ready"

(* C3: when post_build_fun has ended, ctx.fatal was called if and only if  *)
(* some test failed or the coverage report was requested and               *)
(* generate_coverage_report returned failure.                              *)
C3_FatalIffFailuresOrCoverageFailed ==
  phase = "end" =>
    (fatal # None <=>
       (num_test_failures > 0 \/ (with_coverage /\ cov_ret = Some(FALSE))))

(* C4: once the summary is printed, with N results of which k have a       *)
(* nonzero exit code, the pass line reads N-k/N, the fail line reads k/N   *)
(* and print_test_summary returned k; N = 0 when the list was never made.  *)
C4_SummaryCounts ==
  SummaryPrinted =>
    LET lst == IF "utest_results" \in DOMAIN bld THEN bld["utest_results"] ELSE <<>>
        N == Len(lst)
        k == Cardinality({i \in 1..N : lst[i].code # 0})
    IN /\ console[2] = [color |-> "CYAN",
                        text |-> "  tests that pass " \o FmtD(N - k) \o "/" \o FmtD(N)]
       /\ \E i \in 3..Len(console) :
            console[i] = [color |-> "CYAN",
                          text |-> "  tests that fail " \o FmtD(k) \o "/" \o FmtD(N)]
       /\ num_test_failures = k

\* a summary over a full list of which some but not all results failed
C4_Witness ==
  /\ SummaryPrinted
  /\ Len(ResultsOf(bld)) = NumTasks
  /\ num_test_failures > 0
  /\ num_test_failures < NumTasks

(* C5: the coverage steps run in the order 1..5, each at most once and     *)
(* only after all earlier steps returned 0; the log holds the run banners  *)
(* of exactly the steps started; generate_coverage_report returns success  *)
(* only if all five returned 0, and failure right after the first nonzero  *)
(* exit code.                                                              *)
C5_CoverageFailFast ==
  phase \in {"coverage", "end"} /\ with_coverage =>
    /\ cmd_idx <= cmd_len
    /\ Len(cov_rcs) = cmd_idx
    /\ Len(logfile) = cmd_idx + 1
    /\ \A j \in 1..cmd_idx : logfile[j + 1] = "run cmd: " \o cmd_descs[j].cmd
    /\ \A j \in 1..(cmd_idx - 1) : cov_rcs[j] = 0
    /\ IsSet(cov_ret) =>
         /\ cov_ret[1] <=> (cmd_idx = cmd_len /\ \A j \in 1..cmd_idx : cov_rcs[j] = 0)
         /\ ~cov_ret[1] => (cmd_idx >= 1 /\ cov_rcs[cmd_idx] # 0)

\* step 3 of 5 failed: failure returned, banners of steps 1..3 only
C5_Witness ==
  /\ phase = "end"
  /\ cov_rcs = <<0, 0, 1>>
  /\ cov_ret = Some(FALSE)
  /\ Len(logfile) = 4

(* C6: a nonzero exit code is only data: no utest.run makes the build stop *)
(* scheduling, every utest.run that returned did so with success (0) and   *)
(* left exactly one result with its own binary and source and the exit     *)
(* code of its child, and when the post-build function runs every test     *)
(* task of the build has been executed and recorded.                       *)
C6_FailureIsData ==
  LET lst == ResultsOf(bld) IN
  /\ ~stop
  /\ \A t \in Executed :
       /\ run_ret[t] = 0
       /\ Cardinality({i \in 1..Len(lst) : lst[i].f = t /\ lst[i].src = t
                          /\ lst[i].code = proc[t][1].returncode}) = 1
       /\ Cardinality({i \in 1..Len(lst) : lst[i].f = t}) = 1
  /\ (SummaryPrinted /\ options_test = "run") =>
       \A t \in Tasks : link_task[t] => t \in Executed

\* the first test to be recorded failed, and all the others were executed
\* and recorded as well
C6_Witness ==
  /\ \A t \in Tasks : pc[t] = "done"
  /\ Len(ResultsOf(bld)) = NumTasks
  /\ ResultsOf(bld)[1].code # 0
  /\ \E i \in 2..NumTasks : ResultsOf(bld)[i].code = 0

(* C7 as stated: the walk over the build graph and the store into          *)
(* bld.all_test_paths happen one single time in a build invocation.        *)
C7_EnvComputedOnce == env_computes <= 1

(* C7 as amended: the environment map is computed at most once per worker  *)
(* thread (at most MaxJobs times) and at least once when a test runs;      *)
(* every executor that has its map has the content that is stored in       *)
(* bld.all_test_paths, computed by itself or reused.                       *)
C7_EnvComputedAtMostPerWorker ==
  /\ env_computes <= MaxJobs
  /\ env_computes <= Cardinality({t \in Tasks : pc[t] \in {"exec", "acquire", "append",
                                                "create", "release", "done"}})
  /\ (env_computes = 0) <=> ~HasAttr(bld, "all_test_paths")
  /\ \A t \in Tasks :
       /\ pc[t] \in {"exec", "acquire", "append", "create", "release", "done"}
            <=> IsSet(fu[t])
       /\ IsSet(fu[t]) => (HasAttr(bld, "all_test_paths")
                           /\ fu[t][1] = bld["all_test_paths"])

\* MaxJobs workers each computed the map, a later executor reused it
C7_Witness ==
  /\ env_computes = MaxJobs
  /\ \A t \in Tasks : pc[t] = "done"
  /\ NumTasks > MaxJobs

\* the list lst in the order given by the permutation p of its positions
Permuted(lst, p) == [i \in 1..Len(lst) |-> lst[p[i]]]

(* C8: had the results been appended in any other order, the summary would *)
(* report the same pass and fail counts, return the same value and print   *)
(* the same set of lines as it did, and the coverage scope would be the    *)
(* same set of directories.                                                *)
C8_OrderIndependent ==
  SummaryJustPrinted =>
    LET lst == ResultsOf(bld) IN
    \A p \in Permutations(1..Len(lst)) :
      LET ctx == SetAttr(bld, "utest_results", Permuted(lst, p))
          there == print_test_summary(ctx, show_test_out)
          n == Len(there.out)
      IN /\ there.ret = num_test_failures
         /\ n <= Len(console)
         /\ there.out[2] = console[2]
         /\ {there.out[i] : i \in 1..n} = {console[i] : i \in 1..n}
         /\ Cardinality({i \in 1..n : there.out[i].text = ">>>>>>>>>>"})
              = Cardinality({i \in 1..n : console[i].text = ">>>>>>>>>>"})
         /\ with_coverage => CoverageScope(ctx) = cov_scope

\* a summary and a coverage scope over results of several directories, a
\* failure recorded before a pass
C8_Witness ==
  /\ SummaryJustPrinted
  /\ with_coverage
  /\ Len(ResultsOf(bld)) = NumTasks
  /\ ResultsOf(bld)[1].code # 0
  /\ ResultsOf(bld)[NumTasks].code = 0
  /\ ResultsOf(bld)[1].f > ResultsOf(bld)[NumTasks].f
  /\ Cardinality(cov_scope) >= 3

\* the two decimal digits of n < 100
TwoDigits(n) == DigitChars[(n \div 10) + 1] \o DigitChars[(n % 10) + 1]

(* C9 as stated: below 60 s the milliseconds and 'ms'; from 60 s on two    *)
(* digits of minutes (t div 60 s), ':' and two digits of seconds.          *)
C9_TwoDigitMinutes ==
  t_out # "" =>
    IF t_in < 60000 THEN t_out = FmtD(t_in) \o "ms"
    ELSE \E a, b \in 0..9 :
           /\ t_in \div 60000 = 10 * a + b
           /\ t_out = DigitChars[a + 1] \o DigitChars[b + 1] \o ":"
                        \o TwoDigits((t_in \div 1000) % 60)

(* C9 as amended: below 60 s the milliseconds and 'ms'; from 60 s on the   *)
(* minutes (t div 60 s) padded with zeros to at least two digits (exactly  *)
(* two below 100 minutes, all their digits from 100 minutes on), ':' and   *)
(* two digits of seconds (t mod 60 s, truncated); the switch is at 60 s.   *)
C9_MinutesAtLeastTwoDigits ==
  t_out # "" =>
    LET mins == t_in \div 60000
        secs == (t_in \div 1000) % 60
    IN IF t_in < 60000 THEN t_out = FmtD(t_in) \o "ms"
       ELSE /\ t_out = (IF mins < 100 THEN TwoDigits(mins) ELSE FmtD(mins))
                         \o ":" \o TwoDigits(secs)
            /\ Len(t_out) >= 5

\* 125 s gave '02:05'
C9_Witness == t_in = 125000 /\ t_out = "02:05"

(* C10 as stated: in every mode, when the staleness check returns RUN_ME,  *)
(* utest.runnable_status returns RUN_ME.                                   *)
C10_NeverSuppresses ==
  \A t \in Tasks :
    (IsSet(rs_log[t]) /\ rs_log[t][1].stale = RUN_ME) => rs_log[t][1].ret = RUN_ME

(* C10 as amended: in mode run, when the staleness check returns RUN_ME,   *)
(* utest.runnable_status returns RUN_ME; a RUN_ME of the staleness check   *)
(* is suppressed (SKIP_ME) exactly in the modes none and build.            *)
C10_NeverSuppressesInRunMode ==
  \A t \in Tasks :
    (IsSet(rs_log[t]) /\ rs_log[t][1].stale = RUN_ME) =>
      /\ options_test = "run" => (rs_log[t][1].ret = RUN_ME /\ pc[t] = "ready")
      /\ options_test # "run" => (rs_log[t][1].ret = SKIP_ME /\ pc[t] = "skipped")

\* in mode run a stale task was asked and is scheduled to run
C10_Witness ==
  \E t \in Tasks :
    /\ options_test = "run"
    /\ IsSet(rs_log[t])
    /\ rs_log[t][1].stale = RUN_ME
    /\ rs_log[t][1].ret = RUN_ME

\* the lines i..i+2 of the console are the output of result x between markers
FramedAt(i, color, x) ==
  /\ i + 2 <= Len(console)
  /\ console[i] = [color |-> color,
                   text |-> "[" \o TestPathOf(x.f) \o " (TEST)] <<<<<<<<<<"]
  /\ console[i + 1] = [color |-> "CYAN", text |-> x.out]
  /\ console[i + 2] = [color |-> color, text |-> ">>>>>>>>>>"]

\* the result of task t in the shared list
ResultOfTask(t) == ResultsOf(bld)[CHOOSE i \in EntriesOf(t) : TRUE]

\* a run without coverage has ended in which exactly a_t, b_t and c_t ran,
\* with exit codes 0, 1, 0 and durations 0.01 s, 70 s, 0.5 s
ScenarioABC ==
  /\ NumTasks >= 3
  /\ phase = "end"
  /\ options_test = "run"
  /\ ~with_coverage
  /\ Len(ResultsOf(bld)) = 3
  /\ \A t \in 1..3 : Cardinality(EntriesOf(t)) = 1
  /\ ResultOfTask(1).code = 0 /\ ResultOfTask(1).time = 10
  /\ ResultOfTask(2).code = 1 /\ ResultOfTask(2).time = 70000
  /\ ResultOfTask(3).code = 0 /\ ResultOfTask(3).time = 500

\* what C11 says of the counts, of b_t's output, of the returned value and of
\* the end of the invocation
ScenarioSummary ==
  /\ \E i \in 1..Len(console) :
       console[i] = [color |-> "CYAN", text |-> "  tests that pass 2/3"]
  /\ \E i \in 1..Len(console) :
       console[i] = [color |-> "CYAN", text |-> "  tests that fail 1/3"]
  /\ \E i \in 1..Len(console) : FramedAt(i, "YELLOW", ResultOfTask(2))
  /\ ResultOfTask(2).out = "output of b_t: exit 1"
  /\ num_test_failures = 1
  /\ fatal = "Some tests have failed. (1.0s)"

(* C11 as stated: in the scenario, whatever the append order, the summary  *)
(* reads 2/3 passing and 1/3 failing, b_t is printed with its full output  *)
(* and with its duration 01:10, print_test_summary returned 1 and          *)
(* ctx.fatal was called.                                                   *)
C11_ScenarioWithDurationOfFailure ==
  ScenarioABC =>
    /\ ScenarioSummary
    /\ \E i \in 1..Len(console) : console[i].text = "/bld/g1/b_t (01:10)"

(* C11 as amended: in the scenario, whatever the append order, the summary *)
(* reads 2/3 passing and 1/3 failing, b_t is printed with its full output  *)
(* between markers and without its duration, print_test_summary returned 1 *)
(* and ctx.fatal was called; the durations printed are those of the        *)
(* passing a_t (10ms) and c_t (500ms), when show_test_out is off.          *)
C11_ScenarioFailureWithoutDuration ==
  ScenarioABC =>
    /\ ScenarioSummary
    /\ \A i \in 1..Len(console) : console[i].text # "/bld/g1/b_t (01:10)"
    /\ get_time(ResultOfTask(2).time) = "01:10"
    /\ ~show_test_out =>
         /\ \E i \in 1..Len(console) :
              console[i] = [color |-> "GREEN", text |-> "/bld/g1/a_t (10ms)"]
         /\ \E i \in 1..Len(console) :
              console[i] = [color |-> "GREEN", text |-> "/bld/g2/c_t (500ms)"]

\* the scenario with b_t recorded first and c_t before a_t
C11_Witness ==
  /\ ScenarioABC
  /\ ResultsOf(bld)[1].f = 2
  /\ ResultsOf(bld)[2].f = 3
  /\ ~show_test_out

\* the positions of utest.run between testlock.acquire() returning and
\* testlock.release(): lines 142-150
InsertionStep == {"append", "create", "release"}
\* the workers inside the insertion step
Inserting == {t \in Tasks : pc[t] \in InsertionStep}
\* the workers whose child process is running: lines 128-131
Executing == {t \in Tasks : pc[t] = "exec"}

(* C12: at most one worker is inside the insertion step, the lock is held  *)
(* exactly by the worker that is inside it, and no worker holds the lock   *)
(* while it resolves the environment, while its child runs or while it     *)
(* waits for the lock.                                                     *)
C12_LockGuardsOnlyInsertion ==
  /\ Cardinality(Inserting) <= 1
  /\ \A t \in Tasks : (testlock = t) <=> (t \in Inserting)
  /\ testlock \in Tasks \cup {0}
  /\ \A t \in Tasks : pc[t] \in {"mkenv", "exec", "acquire"} => testlock # t

\* MaxJobs >= 2 children run at the same time
C12_Witness ==
  /\ MaxJobs >= 2
  /\ Cardinality(Executing) = MaxJobs

(* C13: under fair scheduling of the worker threads, every worker whose    *)
(* child process has exited eventually has appended its result and         *)
(* released the lock, whether or not any other child ever exits; and the   *)
(* lock is at no time held by a worker that has finished or whose child    *)
(* is still running.                                                       *)
C13_ExitedWorkerRecords ==
  /\ \A t \in Tasks :
       (pc[t] = "acquire") ~> (pc[t] = "done" /\ EntriesOf(t) # {} /\ testlock # t)
  /\ [](\A t \in Tasks : pc[t] \in {"exec", "done"} => testlock # t)

\* a worker has recorded its result and returned while the child of
\* another worker is still running, and the lock is free
C13_Witness ==
  \E t1, t2 \in Tasks :
    /\ pc[t1] = "done"
    /\ EntriesOf(t1) # {}
    /\ pc[t2] = "exec"
    /\ testlock = 0

\* the sequence a is the beginning of the sequence b
IsPrefix(a, b) == Len(a) <= Len(b) /\ \A i \in 1..Len(a) : b[i] = a[i]

(* C14: in every step of the build invocation the result list afterwards   *)
(* is the list before, extended at its end by zero or more entries: no      *)
(* append, no creation of the list, no summary and no coverage step        *)
(* removes, moves or changes an entry, and the list once made stays.       *)
C14_AppendOnly ==
  [][/\ IsPrefix(ResultsOf(bld), ResultsOf(bld'))
     /\ HasAttr(bld, "utest_results") => HasAttr(bld', "utest_results")]_vars

\* the invocation has ended after a failed coverage step, over a list of
\* all NumTasks >= 2 results
C14_Witness ==
  /\ NumTasks >= 2
  /\ phase = "end"
  /\ cov_ret = Some(FALSE)
  /\ Len(ResultsOf(bld)) = NumTasks

(* C15: with coverage enabled, when post_build_fun has ended the error     *)
(* message ends with the coverage-failure message, after the test-failure  *)
(* message if tests failed, whatever generate_coverage_report returned.    *)
C15_CoverageAlwaysReportedFailed ==
  (phase = "end" /\ with_coverage) =>
    /\ IsSet(cov_ret)
    /\ error_msg = (IF num_test_failures > 0 THEN "Some tests have failed." ELSE "")
                     \o "\nFailed to generate coverage report."

\* all five steps returned 0, the report was generated and announced, and
\* generate_coverage_report returned True
C15_Witness ==
  /\ phase = "end"
  /\ with_coverage
  /\ cov_rcs = <<0, 0, 0, 0, 0>>
  /\ cov_ret = Some(TRUE)
  /\ \E i \in 1..Len(console) : console[i].text = "Generated Report"
  /\ error_msg = "\nFailed to generate coverage report."

\* all task generators of the build graph, in the order of the groups
Targets == FlattenGroups(BldGroups)
\* the link-output directories of the build graph, each once, in the order
\* of the first target that links into it
EncounterOrder ==
  LET tg == Targets
      first == {i \in 1..Len(tg) :
                  /\ tg[i].link # None
                  /\ \A j \in 1..(i - 1) : tg[j].link # tg[i].link}
  IN [k \in 1..Cardinality(first) |->
        tg[CHOOSE i \in first : Cardinality({j \in first : j < i}) = k - 1].link]
\* the value of search-path variable var after resolution: the directories,
\* then the ambient value
ResolvedValue(var) ==
  Join(EncounterOrder \o <<IF var \in DOMAIN os_environ THEN os_environ[var] ELSE "">>,
       PathSep(platform))
\* the search-path variable every platform sets
MainPathVar == IF platform = "win32" THEN "PATH" ELSE "LD_LIBRARY_PATH"
\* the value of variable var when the build started, '' when it was not set
Ambient(var) == IF var \in DOMAIN os_environ THEN os_environ[var] ELSE ""
\* the executors that have their environment map
WithEnv == {t \in Tasks : IsSet(fu[t])}

(* C16: the search path of every executor's environment is the list of the *)
(* link-output directories of all targets, each once, in encounter order,  *)
(* followed by the ambient value of the variable; and a resolution that    *)
(* runs when a map is already stored stores the same map again.            *)
C16_DedupOrderedIdempotent ==
  /\ [](LET value == ResolvedValue(MainPathVar) IN
        \A t \in WithEnv : fu[t][1][MainPathVar] = value)
  /\ [][HasAttr(bld, "all_test_paths") =>
          bld'["all_test_paths"] = bld["all_test_paths"]]_vars

\* the map was resolved MaxJobs >= 2 times over a graph in which the library
\* directory and the directory of a_t and b_t occur twice
C16_Witness ==
  /\ MaxJobs >= 2
  /\ env_computes = MaxJobs
  /\ \A t \in 1..3 : link_task[t]
  /\ platform = "linux"
  /\ \E t \in WithEnv :
       fu[t][1]["LD_LIBRARY_PATH"] = "/bld/lib:/bld/g1:/bld/g2:/opt/lib"

\* the search-path variables of the platform
PlatformVars ==
  IF platform = "win32" THEN {"PATH"}
  ELSE IF platform = "darwin" THEN {"DYLD_LIBRARY_PATH", "LD_LIBRARY_PATH"}
  ELSE {"LD_LIBRARY_PATH"}

(* C17: the environment map of every executor has the keys of os.environ   *)
(* and the search-path variables of the platform; each of these variables  *)
(* differs from its ambient value, every other key has its ambient value,  *)
(* and os.environ itself is never changed.                                 *)
C17_OnlySearchPathChanged ==
  /\ [](\A t \in WithEnv :
         LET m == fu[t][1] IN
         /\ DOMAIN m = DOMAIN os_environ \cup PlatformVars
         /\ \A k \in PlatformVars : m[k] # Ambient(k)
         /\ \A k \in DOMAIN m \ PlatformVars : m[k] = os_environ[k])
  /\ [](os_environ \in AmbientEnvs)
  /\ [][os_environ' = os_environ]_vars

\* on macOS, without an ambient library search path, the map was resolved
\* twice: both variables were added, PATH and HOME are as they were
C17_Witness ==
  /\ platform = "darwin"
  /\ os_environ = OsEnvironBare
  /\ env_computes >= 2
  /\ \E t \in WithEnv :
       /\ DOMAIN fu[t][1] = {"PATH", "HOME", "DYLD_LIBRARY_PATH", "LD_LIBRARY_PATH"}
       /\ fu[t][1]["PATH"] = "/usr/bin"
       /\ fu[t][1]["HOME"] = "/root"

\* the executors that have started their child process (line 128)
Launched == {t \in Tasks : pc[t] \in {"exec", "acquire", "append", "create",
                                        "release", "done"}}

(* C20: whatever the interleaving of the lookups, walks and stores of      *)
(* bld.all_test_paths, every executor that has started its child started   *)
(* it with an environment map, any two of these maps are equal, and in     *)
(* each of them every search-path variable of the platform holds all       *)
(* link-output directories in encounter order before the ambient value.    *)
C20_SameCompleteEnvironment ==
  /\ Launched \subseteq WithEnv
  /\ \A t1, t2 \in Launched : fu[t1][1] = fu[t2][1]
  /\ \A var \in PlatformVars :
       LET value == ResolvedValue(var) IN
       \A t \in Launched : var \in DOMAIN fu[t][1] /\ fu[t][1][var] = value

\* MaxJobs >= 2 workers each resolved and stored the map, a later executor
\* took the stored one, and all have launched their child
C20_Witness ==
  /\ MaxJobs >= 2
  /\ NumTasks > MaxJobs
  /\ env_computes = MaxJobs
  /\ Launched = Tasks
  /\ platform = "win32"

\* the console lines that are about result x: a start marker with its path,
\* its path with a duration, or its captured output
LinesAbout(x) ==
  {i \in 1..Len(console) :
     \/ console[i].text = "[" \o TestPathOf(x.f) \o " (TEST)] <<<<<<<<<<"
     \/ console[i].text = TestPathOf(x.f) \o " (" \o get_time(x.time) \o ")"
     \/ console[i].text = x.out}
\* the positions of the two count lines of the summary
PassLineAt == CHOOSE i \in 1..Len(console) :
                \E a, b \in 0..NumTasks :
                  console[i].text = "  tests that pass " \o FmtD(a) \o "/" \o FmtD(b)
FailLineAt == CHOOSE i \in 1..Len(console) :
                \E a, b \in 0..NumTasks :
                  console[i].text = "  tests that fail " \o FmtD(a) \o "/" \o FmtD(b)
\* the console lines that end a framed output
EndMarkers == {i \in 1..Len(console) : console[i].text = ">>>>>>>>>>"}

(* C18: in the summary every result is printed exactly once.  A result     *)
(* with a nonzero exit code is printed after the fail line, as its output  *)
(* between markers, whatever show_test_out is; a result with exit code 0   *)
(* is printed between the pass line and the fail line, as one              *)
(* path-and-duration line when show_test_out is off and as its output      *)
(* between markers when it is on; no other line is about the result.       *)
C18_EachResultPrintedOnce ==
  SummaryJustPrinted =>
    LET lst == ResultsOf(bld) IN
    /\ PassLineAt = 2
    /\ PassLineAt < FailLineAt
    /\ \A r \in 1..Len(lst) :
         LET x == lst[r] IN
         IF x.code # 0
         THEN \E i \in (FailLineAt + 1)..Len(console) :
                /\ FramedAt(i, "YELLOW", x)
                /\ LinesAbout(x) = {i, i + 1}
         ELSE IF show_test_out
              THEN \E i \in (PassLineAt + 1)..(FailLineAt - 3) :
                     /\ FramedAt(i, "GREEN", x)
                     /\ LinesAbout(x) = {i, i + 1}
              ELSE \E i \in (PassLineAt + 1)..(FailLineAt - 1) :
                     /\ console[i] = [color |-> "GREEN",
                                      text |-> TestPathOf(x.f) \o " ("
                                               \o get_time(x.time) \o ")"]
                     /\ LinesAbout(x) = {i}
    /\ Cardinality(EndMarkers)
         = Cardinality({r \in 1..Len(lst) : lst[r].code # 0 \/ show_test_out})
    /\ FailLineAt = 3 + Cardinality({r \in 1..Len(lst) : lst[r].code = 0})
                         * (IF show_test_out THEN 3 ELSE 1)

\* a summary with show_test_out on, over a full list in which a failure was
\* recorded before a pass
C18_Witness ==
  /\ SummaryJustPrinted
  /\ show_test_out
  /\ Len(ResultsOf(bld)) = NumTasks
  /\ ResultsOf(bld)[1].code # 0
  /\ \E r \in 2..NumTasks : ResultsOf(bld)[r].code = 0

\* a coverage-accumulator file is under the build output tree
GcdaLeft == \E f \in bldfiles : f.ext = "gcda"
\* the test tasks that a worker has taken or that have finished
Started == {t \in Tasks : pc[t] \in {"mkenv", "exec", "acquire", "append",
                                       "create", "release", "done"}}

(* C19: the .gcda files are removed by build(ctx) if and only if the mode  *)
(* is run and coverage is enabled, and no test task starts before          *)
(* build(ctx) has run; post_build_fun is registered exactly in mode run    *)
(* and runs only when every test task has finished, the summary first and  *)
(* the coverage report, only with coverage enabled, after it; in the modes *)
(* none and build no test task starts, no file is removed and nothing is   *)
(* printed, summarised or generated.                                       *)
C19_Lifecycle ==
  /\ phase = "start" => (GcdaLeft /\ post_funs = <<>> /\ Started = {})
  /\ phase # "start" =>
       /\ (~GcdaLeft) <=> (options_test = "run" /\ with_coverage)
       /\ (post_funs = <<"post_build_fun">>) <=> (options_test = "run")
       /\ (post_funs = <<>>) <=> (options_test # "run")
  /\ [stem |-> "a.t", ext |-> "o"] \in bldfiles
  /\ Started # {} => (options_test = "run" /\ phase # "start")
  /\ SummaryPrinted =>
       /\ options_test = "run"
       /\ \A t \in Tasks : pc[t] \in {"notask", "done"}
       /\ console[1].text = "Test Summary"
       /\ (\E i \in 2..Len(console) : console[i].text = "Generating Test Coverage Report")
            <=> with_coverage
  /\ (phase = "coverage" \/ IsSet(cov_ret)) => with_coverage
  /\ options_test # "run" =>
       /\ phase \in {"start", "compile"}
       /\ \A t \in Tasks : pc[t] \in {"notask", "pending", "skipped"}
       /\ GcdaLeft
       /\ console = <<>>
       /\ bld = <<>>
       /\ cov_ret = Unset

\* a run with coverage has ended: the .gcda files were removed, all
\* NumTasks tests ran, then the summary and the coverage steps
C19_Witness ==
  /\ phase = "end"
  /\ options_test = "run"
  /\ with_coverage
  /\ ~GcdaLeft
  /\ \A t \in Tasks : pc[t] = "done"
  /\ IsSet(cov_ret)

====
